---- MODULE Spec2Model ----
(***************************************************************************)
(* Model of src/app.py: the session-scoped scoreboard of a two-team ranked  *)
(* competition.  Several Streamlit script runs ("processes", one per        *)
(* browser session) share the three Supabase tables and an external match   *)
(* source; each keeps its own st.session_state.                             *)
(*                                                                         *)
(* Time: one integer clock, in seconds.  Every datetime.now()/time.time()   *)
(* read returns the current clock; isoformat()/fromisoformat() keep the     *)
(* instant, so a stored timestamp is the instant itself.  A null timestamp  *)
(* is 0 (both are falsy in the code's tests).                               *)
(***************************************************************************)
EXTENDS Integers, Sequences, FiniteSets, Bags, TLC

\* ---------------------------------------------------------------- Config
POLL_SEC == 60
SOLOQ_QUEUE_ID == 420
ALERT_SHOW_SEC == 4

\* ---------------------------------------------------------------- Bounds
MaxSessions == 2
MaxTicks == 2
MaxMids == 2
StartClock == 100

Procs == {"p1", "p2"}
Handles == {"h1", "h2"}
Matches == {"m1", "m2", "m3", "m4"}

VARIABLES
    clock,            \* wall clock (seconds)
    sessions,         \* table sessions: row i has id i
    session_players,  \* table session_players (unique on session_id, nickname)
    session_results,  \* table session_results, a bag of rows
    st,               \* per process: the script run's position and locals
    session_state     \* per process: st.session_state

vars == <<clock, sessions, session_players, session_results, st, session_state>>

\* ------------------------------------------------------- External world
\* riotid_to_puuid: the stable identifier behind a handle.
riotid_to_puuid(riot_id) == IF riot_id = "h1" THEN "u1" ELSE "u2"

\* The name the operator types in front of a handle.
RealNameOf(riot_id) == IF riot_id = "h1" THEN "n1" ELSE "n2"

\* What the match source holds for each match id (timestamps in ms, 0 when
\* the field is absent).
\*   m1  qualifying queue, end and start time, both players took part
\*   m2  another queue
\*   m3  qualifying queue, no end time, only u1 took part
\*   m4  qualifying queue, no timestamp at all, only u2 took part
MatchSource(match_id) ==
    CASE match_id = "m1" ->
           [queueId |-> SOLOQ_QUEUE_ID,
            gameEndTimestamp |-> (StartClock + 1) * 1000,
            gameStartTimestamp |-> StartClock * 1000,
            participants |-> [u \in {"u1", "u2"} |-> (u = "u1")]]
      [] match_id = "m2" ->
           [queueId |-> SOLOQ_QUEUE_ID + 20,
            gameEndTimestamp |-> (StartClock + 1) * 1000,
            gameStartTimestamp |-> StartClock * 1000,
            participants |-> [u \in {"u1", "u2"} |-> TRUE]]
      [] match_id = "m3" ->
           [queueId |-> SOLOQ_QUEUE_ID,
            gameEndTimestamp |-> 0,
            gameStartTimestamp |-> (StartClock + 1) * 1000,
            participants |-> [u \in {"u1"} |-> FALSE]]
      [] OTHER ->
           [queueId |-> SOLOQ_QUEUE_ID,
            gameEndTimestamp |-> 0,
            gameStartTimestamp |-> 0,
            participants |-> [u \in {"u2"} |-> TRUE]]

\* Position of a match in the source's history (a later match ranks higher).
Rank(match_id) ==
    CASE match_id = "m1" -> 1
      [] match_id = "m2" -> 2
      [] match_id = "m3" -> 3
      [] OTHER -> 4

\* The lists get_match_ids can return: newest first, at most MaxMids long;
\* the empty list is also the answer to a non-200 reply.
MatchLists ==
    {s \in UNION {[1..n -> Matches] : n \in 0..MaxMids} :
        \A i \in 1..Len(s) : \A j \in 1..Len(s) : i < j => Rank(s[i]) > Rank(s[j])}

\* ---------------------------------------------------------------- Helpers
NoSession == [id |-> 0, started_at |-> 0, ended_at |-> 0]

RECURSIVE SeqsOf(_)
\* every ordering of a finite set, as sequences
SeqsOf(S) ==
    IF S = {} THEN {<<>>}
    ELSE UNION {{<<x>> \o t : t \in SeqsOf(S \ {x})} : x \in S}

RECURSIVE SumOver(_, _)
SumOver(f, S) ==
    IF S = {} THEN 0
    ELSE LET x == CHOOSE y \in S : TRUE IN f[x] + SumOver(f, S \ {x})

\* ------------------------------------------------------- Supabase helpers
\* sessions where ended_at is null, highest id first, limit 1
get_active_session ==
    LET open == {i \in 1..Len(sessions) : sessions[i].ended_at = 0}
    IN  IF open = {} THEN NoSession
        ELSE LET i == CHOOSE j \in open : \A k \in open : k <= j
             IN  [id |-> i, started_at |-> sessions[i].started_at,
                  ended_at |-> sessions[i].ended_at]

create_session ==
    Append(sessions, [started_at |-> 0, ended_at |-> 0])

start_session(session_id) ==
    [sessions EXCEPT ![session_id].started_at = clock]

end_session(session_id) ==
    [sessions EXCEPT ![session_id].ended_at = clock]

upsert_session_player(tbl, session_id, real_name, riot_id, puuid, team) ==
    {r \in tbl : ~(r.session_id = session_id /\ r.nickname = riot_id)}
      \cup {[session_id |-> session_id, real_name |-> real_name,
             nickname |-> riot_id, puuid |-> puuid, team |-> team]}

load_players(session_id) ==
    {r \in session_players : r.session_id = session_id}

SameKey(r, q) ==
    /\ r.session_id = q.session_id
    /\ r.nickname = q.nickname
    /\ r.match_id = q.match_id

existing_match_ids(session_id, riot_id, match_ids) ==
    {r.match_id : r \in {q \in BagToSet(session_results) :
                            /\ q.session_id = session_id
                            /\ q.nickname = riot_id
                            /\ \E i \in 1..Len(match_ids) : match_ids[i] = q.match_id}}

\* an insert that takes no notice of the key
RECURSIVE insert_results_plain(_, _)
insert_results_plain(tbl, rows) ==
    IF rows = <<>> THEN tbl
    ELSE insert_results_plain(tbl (+) SetToBag({Head(rows)}), Tail(rows))

\* upsert with on_conflict = (session_id, nickname, match_id): a row whose key
\* is already stored is replaced by the new row, any other row is added.
\* a write that replaces the table by the batch
insert_results_replace(tbl, rows) ==
    IF rows = <<>> THEN tbl ELSE SetToBag({rows[i] : i \in 1..Len(rows)})

\* a write that is lost
insert_results_lost(tbl, rows) == tbl

RECURSIVE insert_results(_, _)
insert_results(tbl, rows) ==
    IF rows = <<>> THEN tbl
    ELSE LET row == Head(rows)
             kept == {q \in BagToSet(tbl) : ~SameKey(q, row)}
             rest == [q \in kept |-> tbl[q]]
         IN  insert_results(rest (+) SetToBag({row}), Tail(rows))

load_results(session_id) ==
    LET sel == {q \in BagToSet(session_results) : q.session_id = session_id}
    IN  [q \in sel |-> session_results[q]]

\* --------------------------------------------------------------- Riot helpers
\* a parser that takes the win flag of whichever participant it meets
parse_match_any_participant(match_detail, puuid) ==
    LET ts == IF match_detail.gameEndTimestamp # 0
              THEN match_detail.gameEndTimestamp
              ELSE match_detail.gameStartTimestamp
        found == puuid \in DOMAIN match_detail.participants
        some == CHOOSE u \in DOMAIN match_detail.participants : u # puuid \/ ~found
    IN  [queue_id |-> match_detail.queueId,
         played_at |-> IF ts # 0 THEN ts \div 1000 ELSE clock,
         found |-> TRUE,
         win_val |-> IF found /\ Cardinality(DOMAIN match_detail.participants) = 1
                     THEN match_detail.participants[puuid]
                     ELSE match_detail.participants[some]]

\* parse_match_for_player: found = FALSE stands for win_val = None.
parse_match_for_player(match_detail, puuid) ==
    LET ts == IF match_detail.gameEndTimestamp # 0
              THEN match_detail.gameEndTimestamp
              ELSE match_detail.gameStartTimestamp
        found == puuid \in DOMAIN match_detail.participants
    IN  [queue_id |-> match_detail.queueId,
         played_at |-> IF ts # 0 THEN ts \div 1000 ELSE clock,
         found |-> found,
         win_val |-> IF found THEN match_detail.participants[puuid] ELSE FALSE]

\* ------------------------------------------------------------- Script state
Blank ==
    [pc |-> "idle", sactive |-> NoSession, active |-> NoSession,
     players |-> <<>>, now |-> 0, start_dt |-> 0, polled |-> FALSE, k |-> 0,
     mids |-> <<>>, new_ids |-> <<>>, inserts |-> <<>>,
     new_events |-> <<>>, results |-> EmptyBag,
     wl |-> <<>>, A_wins |-> 0, B_wins |-> 0, show_alert |-> FALSE,
     stored |-> {}, got |-> {}]

Init ==
    /\ clock = StartClock
    /\ sessions = <<>>
    /\ session_players = {}
    /\ session_results = EmptyBag
    /\ st = [p \in Procs |-> Blank]
    /\ session_state = [p \in Procs |->
            [alert_until |-> 0, alert_text |-> <<>>, last_poll_ts |-> 0]]

\* number of clock steps taken since StartClock (a step is 1 s or POLL_SEC s)
Elapsed == ((clock - StartClock) \div POLL_SEC) + ((clock - StartClock) % POLL_SEC)

\* a second passes
TickSecond ==
    /\ Elapsed < MaxTicks
    /\ clock' = clock + 1
    /\ UNCHANGED <<sessions, session_players, session_results, st, session_state>>

\* a whole poll interval passes
TickInterval ==
    /\ Elapsed < MaxTicks
    /\ clock' = clock + POLL_SEC
    /\ UNCHANGED <<sessions, session_players, session_results, st, session_state>>

Tick == TickSecond \/ TickInterval

Min(a, b) == IF a <= b THEN a ELSE b

\* a whole poll interval passes when the clock stands at the horizon of the
\* model: the clock keeps its value and the times that are compared with it
\* (each process's last-poll marker and alert expiry) age by the interval
TickBeyond ==
    /\ Elapsed >= MaxTicks
    /\ session_state' = [p \in Procs |->
            [session_state[p] EXCEPT
                !.last_poll_ts = Min(@, clock - POLL_SEC),
                !.alert_until = Min(@, clock)]]
    /\ UNCHANGED <<clock, sessions, session_players, session_results, st>>

\* ------------------------------------------------------------ Admin sidebar
\* lines 202-204: the create button
CreateSession(p) ==
    /\ st[p].pc = "idle"
    /\ Len(sessions) < MaxSessions
    /\ sessions' = create_session
    /\ UNCHANGED <<clock, session_players, session_results, st, session_state>>

\* line 206: the sidebar's read of the active session, in a run where a
\* button of the active-session block was clicked
SidebarRead(p) ==
    /\ st[p].pc = "idle"
    /\ get_active_session # NoSession
    /\ st' = [st EXCEPT ![p] = [Blank EXCEPT !.pc = "side", !.sactive = get_active_session]]
    /\ UNCHANGED <<clock, sessions, session_players, session_results, session_state>>

\* lines 221-224
StartClick(p) ==
    /\ st[p].pc = "side"
    /\ st[p].sactive.started_at = 0
    /\ sessions' = start_session(st[p].sactive.id)
    /\ st' = [st EXCEPT ![p] = Blank]
    /\ UNCHANGED <<clock, session_players, session_results, session_state>>

\* lines 225-228
EndClick(p) ==
    /\ st[p].pc = "side"
    /\ st[p].sactive.started_at # 0
    /\ sessions' = end_session(st[p].sactive.id)
    /\ st' = [st EXCEPT ![p] = Blank]
    /\ UNCHANGED <<clock, session_players, session_results, session_state>>

RECURSIVE UpsertTeam(_, _, _, _)
UpsertTeam(tbl, sid, hs, team) ==
    IF hs = {} THEN tbl
    ELSE LET h == CHOOSE x \in hs : TRUE
         IN  UpsertTeam(upsert_session_player(tbl, sid, RealNameOf(h), h,
                                              riotid_to_puuid(h), team),
                        sid, hs \ {h}, team)

\* lines 251-280: A and B are the handles of the two text areas whose line
\* carries a name and whose handle resolves; the other lines are not saved.
SaveTeam(p) ==
    /\ st[p].pc = "side"
    /\ \E A \in SUBSET Handles, B \in SUBSET Handles :
          /\ A \cup B # {}
          /\ LET active2 == get_active_session
             IN  session_players' =
                   IF active2 = NoSession THEN session_players
                   ELSE UpsertTeam(UpsertTeam(session_players, active2.id, A, "A"),
                                   active2.id, B, "B")
    /\ st' = [st EXCEPT ![p] = Blank]
    /\ UNCHANGED <<clock, sessions, session_results, session_state>>

\* ------------------------------------------------------- Load active session
\* lines 285-295: no active session ends the run (st.stop)
LoadActive(p) ==
    /\ st[p].pc = "idle"
    /\ st' = [st EXCEPT ![p] =
                IF get_active_session = NoSession THEN Blank
                ELSE [Blank EXCEPT !.pc = "loaded", !.active = get_active_session]]
    /\ UNCHANGED <<clock, sessions, session_players, session_results, session_state>>

\* the gate without the test of started_at
do_poll_unstarted(ended_at, started_at, last_poll_ts) ==
    /\ ended_at = 0
    /\ clock - last_poll_ts >= POLL_SEC

\* the gate without the cadence test
do_poll_always(ended_at, started_at, last_poll_ts) ==
    /\ ended_at = 0
    /\ started_at # 0

\* line 303
do_poll(ended_at, started_at, last_poll_ts) ==
    /\ ended_at = 0
    /\ started_at # 0
    /\ clock - last_poll_ts >= POLL_SEC

\* lines 297-309: the roster, the poll gate and the cycle's set-up
LoadPlayers(p) ==
    /\ st[p].pc = "loaded"
    /\ \E players \in SeqsOf(load_players(st[p].active.id)) :
          IF /\ do_poll(st[p].active.ended_at, st[p].active.started_at,
                        session_state[p].last_poll_ts)
             /\ players # <<>>
          THEN /\ session_state' = [session_state EXCEPT ![p].last_poll_ts = clock]
               /\ st' = [st EXCEPT ![p].pc = "fetch", ![p].players = players,
                                    ![p].now = clock, ![p].polled = TRUE,
                                    ![p].start_dt = st[p].active.started_at,
                                    ![p].k = 1]
          ELSE /\ st' = [st EXCEPT ![p].pc = "render", ![p].players = players,
                                    ![p].now = clock]
               /\ UNCHANGED session_state
    /\ UNCHANGED <<clock, sessions, session_players, session_results>>

\* a poller that skips the dedup
NewIdsAll(mids, exist) == mids

\* line 318
NewIds(mids, exist) == SelectSeq(mids, LAMBDA m : m \notin exist)

\* the filters without the queue test
QualifiesAnyQueue(parsed, start_dt, now) ==
    /\ ~(parsed.played_at < start_dt \/ parsed.played_at > now)
    /\ parsed.found

\* the filters without the test of win_val
QualifiesUnattributed(parsed, start_dt, now) ==
    /\ parsed.queue_id = SOLOQ_QUEUE_ID
    /\ ~(parsed.played_at < start_dt \/ parsed.played_at > now)

\* lines 329-334: the three filters
Qualifies(parsed, start_dt, now) ==
    /\ parsed.queue_id = SOLOQ_QUEUE_ID
    /\ ~(parsed.played_at < start_dt \/ parsed.played_at > now)
    /\ parsed.found

\* lines 336-342
ResultRow(session_id, riot_id, mid, parsed) ==
    [session_id |-> session_id, nickname |-> riot_id, match_id |-> mid,
     win |-> parsed.win_val, played_at |-> parsed.played_at]

\* lines 320-345: the rows and events of the ids in new_ids, in order;
\* oks holds the ids whose get_match_detail gave a detail (the others gave
\* None, a non-200 reply)
RECURSIVE Collect(_, _, _, _, _, _)
Collect(new_ids, oks, session_id, pl, start_dt, now) ==
    IF new_ids = <<>> THEN [inserts |-> <<>>, events |-> <<>>]
    ELSE LET mid == Head(new_ids)
             parsed == parse_match_for_player(MatchSource(mid), pl.puuid)
             keep == mid \in oks /\ Qualifies(parsed, start_dt, now)
             rest == Collect(Tail(new_ids), oks, session_id, pl, start_dt, now)
         IN  IF keep
             THEN [inserts |-> <<ResultRow(session_id, pl.nickname, mid, parsed)>>
                                 \o rest.inserts,
                   events |-> <<<<pl.real_name, IF parsed.win_val THEN "W" ELSE "L">>>>
                                 \o rest.events]
             ELSE rest

\* lines 312-345: one player's match ids, the existence check and the detail
\* fetches of the new ids.  The detail fetches touch no shared state and
\* a match is kept only if the clock has not moved since line 302, so they
\* are taken together with the existence check.
\*   stored: the match ids the store holds for the player at the check
\*   got:    the new ids whose detail was obtained
FetchIds(p) ==
    /\ st[p].pc = "fetch"
    /\ \E mids \in MatchLists :
          LET pl == st[p].players[st[p].k]
              exist == existing_match_ids(st[p].active.id, pl.nickname, mids)
              new_ids == NewIds(mids, exist)
          IN  \E oks \in SUBSET {new_ids[i] : i \in 1..Len(new_ids)} :
                LET c == Collect(new_ids, oks, st[p].active.id, pl,
                                 st[p].start_dt, st[p].now)
                IN  st' = [st EXCEPT
                       ![p].pc = "insert",
                       ![p].mids = mids,
                       ![p].new_ids = new_ids,
                       ![p].inserts = c.inserts,
                       ![p].new_events = @ \o c.events,
                       ![p].got = oks,
                       ![p].stored = {q.match_id : q \in
                                        {r \in BagToSet(session_results) :
                                            /\ r.session_id = st[p].active.id
                                            /\ r.nickname = pl.nickname}}]
    /\ UNCHANGED <<clock, sessions, session_players, session_results, session_state>>

\* line 347, then the next player or the end of the loop
InsertResults(p) ==
    /\ st[p].pc = "insert"
    /\ session_results' = insert_results(session_results, st[p].inserts)
    /\ st' = [st EXCEPT
           ![p].pc = IF st[p].k = Len(st[p].players) THEN "render" ELSE "fetch",
           ![p].k = @ + 1,
           ![p].mids = <<>>, ![p].new_ids = <<>>, ![p].inserts = <<>>,
           ![p].got = {}, ![p].stored = {}]
    /\ UNCHANGED <<clock, sessions, session_players, session_state>>

\* ------------------------------------------------------------- Aggregation
\* len(df[...]): the number of rows of bag df among the distinct rows sel
Rows(df, sel) ==
    BagCardinality([q \in sel |-> df[q]])

\* lines 380-386
wl(df_res, riot_id) ==
    <<Rows(df_res, {q \in BagToSet(df_res) : q.nickname = riot_id /\ q.win = TRUE}),
      Rows(df_res, {q \in BagToSet(df_res) : q.nickname = riot_id /\ q.win = FALSE})>>

\* the wins of every handle, on the team or not
team_wins_all(df_res, team_list) ==
    Rows(df_res, {q \in BagToSet(df_res) : q.win = TRUE})

\* lines 388-392
team_wins(df_res, team_list) ==
    Rows(df_res, {q \in BagToSet(df_res) : q.nickname \in team_list /\ q.win = TRUE})

\* lines 377-378
TeamList(players, team) ==
    {players[i].nickname : i \in {j \in 1..Len(players) : players[j].team = team}}

\* the text for the first event of the cycle
alert_text_first(new_events) ==
    LET e == new_events[1]
    IN  <<e[1], IF e[2] = "W" THEN "victory" ELSE "defeat">>

\* lines 351-352: the text for the last event of the cycle; "victory" and
\* "defeat" stand for the two Korean words of the f-string
alert_text(new_events) ==
    LET e == new_events[Len(new_events)]
    IN  <<e[1], IF e[2] = "W" THEN "victory" ELSE "defeat">>

\* a notification that stays once it was set
show_alert_sticky(alert_until) == alert_until # 0

\* line 461
show_alert(alert_until) == clock < alert_until

\* lines 350-353 (inside the poll branch), 372-395 and 461
Render(p) ==
    /\ st[p].pc = "render"
    /\ LET ev == st[p].new_events
           alert == IF ev # <<>>
                    THEN [session_state[p] EXCEPT
                            !.alert_text = alert_text(ev),
                            !.alert_until = clock + ALERT_SHOW_SEC]
                    ELSE session_state[p]
           results == load_results(st[p].active.id)
           roster == {st[p].players[i].nickname : i \in 1..Len(st[p].players)}
       IN  /\ session_state' = [session_state EXCEPT ![p] = alert]
           /\ st' = [st EXCEPT
                  ![p].pc = "done",
                  ![p].results = results,
                  ![p].wl = [h \in roster |-> wl(results, h)],
                  ![p].A_wins = team_wins(results, TeamList(st[p].players, "A")),
                  ![p].B_wins = team_wins(results, TeamList(st[p].players, "B")),
                  ![p].show_alert = show_alert(alert.alert_until)]
    /\ UNCHANGED <<clock, sessions, session_players, session_results>>

\* the run is over; the next refresh starts a new one
Finish(p) ==
    /\ st[p].pc = "done"
    /\ st' = [st EXCEPT ![p] = Blank]
    /\ UNCHANGED <<clock, sessions, session_players, session_results, session_state>>

\* an uncaught exception of a network or store call (requests.get raises on a
\* timeout, execute() on a store error) ends the run where it stands
Abort(p) ==
    /\ st[p].pc \in {"side", "loaded", "fetch", "insert", "render"}
    /\ st' = [st EXCEPT ![p] = Blank]
    /\ UNCHANGED <<clock, sessions, session_players, session_results, session_state>>

Next ==
    \/ Tick
    \/ \E p \in Procs :
          \/ CreateSession(p)
          \/ SidebarRead(p)
          \/ StartClick(p)
          \/ EndClick(p)
          \/ SaveTeam(p)
          \/ LoadActive(p)
          \/ LoadPlayers(p)
          \/ FetchIds(p)
          \/ InsertResults(p)
          \/ Render(p)
          \/ Finish(p)
          \/ Abort(p)

Spec == Init /\ [][Next]_vars

\* ------------------------------------------------- Focused specifications
Admin(p) ==
    \/ SidebarRead(p)
    \/ StartClick(p)
    \/ EndClick(p)

Poll(p) ==
    \/ LoadActive(p)
    \/ LoadPlayers(p)
    \/ FetchIds(p)
    \/ InsertResults(p)
    \/ Render(p)
    \/ Finish(p)

\* The sidebar alone: its buttons, pressed by every process.
NextLife ==
    \/ Tick
    \/ \E p \in Procs : CreateSession(p) \/ Admin(p) \/ Abort(p)

SpecLife == Init /\ [][NextLife]_vars

\* One session that was created and whose roster was saved (both handles,
\* on one team or on two) before the first tick.
InitPoll ==
    /\ clock = StartClock
    /\ sessions = <<[started_at |-> 0, ended_at |-> 0]>>
    /\ \E A \in {{"h1"}, Handles} :
          session_players = UpsertTeam(UpsertTeam({}, 1, A, "A"), 1, Handles \ A, "B")
    /\ session_results = EmptyBag
    /\ st = [p \in Procs |-> Blank]
    /\ session_state = [p \in Procs |->
            [alert_until |-> 0, alert_text |-> <<>>, last_poll_ts |-> 0]]

\* Process p1 operates the session and polls it; process p2 is a second
\* operator.
NextOps ==
    \/ Tick
    \/ Admin("p1") \/ Poll("p1") \/ Abort("p1")
    \/ Admin("p2") \/ Abort("p2")

SpecOps == InitPoll /\ [][NextOps]_vars

\* Two processes poll a session that was started at StartClock, one second
\* ago, and whose roster is a single player.
InitDuo ==
    /\ clock = StartClock + 1
    /\ sessions = <<[started_at |-> StartClock, ended_at |-> 0]>>
    /\ \E h \in Handles : session_players = UpsertTeam({}, 1, {h}, "A")
    /\ session_results = EmptyBag
    /\ st = [p \in Procs |-> Blank]
    /\ session_state = [p \in Procs |->
            [alert_until |-> 0, alert_text |-> <<>>, last_poll_ts |-> 0]]

NextDuo ==
    \/ TickSecond
    \/ \E p \in Procs : Poll(p) \/ Abort(p)

SpecDuo == InitDuo /\ [][NextDuo]_vars

\* One process polls a session that was started at StartClock, this very
\* second, with both handles on the roster (on one team or on two).
InitView ==
    /\ clock = StartClock
    /\ sessions = <<[started_at |-> StartClock, ended_at |-> 0]>>
    /\ \E A \in {{"h1"}, Handles} :
          session_players = UpsertTeam(UpsertTeam({}, 1, A, "A"), 1, Handles \ A, "B")
    /\ session_results = EmptyBag
    /\ st = [p \in Procs |-> Blank]
    /\ session_state = [p \in Procs |->
            [alert_until |-> 0, alert_text |-> <<>>, last_poll_ts |-> 0]]

NextView ==
    \/ Tick
    \/ Poll("p1")
    \/ Abort("p1")

SpecView == InitView /\ [][NextView]_vars

\* Process p1 polls, without end, a session that was started at StartClock
\* with handle h1 as its roster, while process p2 may press the create
\* button. The script is rerun by the auto-refresh for ever, time passes for
\* ever, and the calls of a cycle do not fail for ever: the match list that
\* holds m1 with m1's detail, and the write of a batch that holds m1, succeed
\* again and again when tried again and again.
InitRetry ==
    /\ clock = StartClock + 1
    /\ sessions = <<[started_at |-> StartClock, ended_at |-> 0]>>
    /\ session_players = UpsertTeam({}, 1, {"h1"}, "A")
    /\ session_results = EmptyBag
    /\ st = [p \in Procs |-> Blank]
    /\ session_state = [p \in Procs |->
            [alert_until |-> 0, alert_text |-> <<>>, last_poll_ts |-> 0]]

NextRetry ==
    \/ TickInterval
    \/ TickBeyond
    \/ Poll("p1")
    \/ Abort("p1")
    \/ CreateSession("p2")

\* the cycle's first step, taken with the gate open
PollStart(p) == LoadPlayers(p) /\ st'[p].pc = "fetch"

\* the match list holds m1 and m1's detail is obtained if it is asked for
GoodFetch(p) ==
    /\ FetchIds(p)
    /\ \E i \in 1..Len(st'[p].mids) : st'[p].mids[i] = "m1"
    /\ (\E i \in 1..Len(st'[p].new_ids) : st'[p].new_ids[i] = "m1") =>
           "m1" \in st'[p].got

\* the write of a batch that holds m1 succeeds
GoodWrite(p) ==
    /\ InsertResults(p)
    /\ \E i \in 1..Len(st[p].inserts) : st[p].inserts[i].match_id = "m1"

SpecRetry ==
    /\ InitRetry
    /\ [][NextRetry]_vars
    /\ WF_vars(TickInterval \/ TickBeyond)
    /\ WF_vars(LoadActive("p1"))
    /\ SF_vars(PollStart("p1"))
    /\ SF_vars(GoodFetch("p1"))
    /\ SF_vars(GoodWrite("p1"))
    /\ WF_vars(InsertResults("p1"))
    /\ WF_vars(Render("p1"))
    /\ WF_vars(Finish("p1"))

\* ====================================================================
\* Properties
\* ====================================================================
\* number of rows of bag tbl with the key of row r
KeyCount(tbl, r) ==
    LET same == {q \in BagToSet(tbl) : SameKey(q, r)}
    IN  SumOver([q \in same |-> tbl[q]], same)

\* C1: whatever poll cycles the processes interleave on one session, the
\* result store holds at most one row per (session, handle, match id).
C1_OneRowPerKey ==
    \A r \in BagToSet(session_results) : KeyCount(session_results, r) = 1

\* both processes detected a result in their cycle and wrote it, and the store
\* holds a single row: the two writes were of the same key
C1_Witness ==
    /\ \A p \in Procs : st[p].pc = "done" /\ st[p].new_events # <<>>
    /\ BagCardinality(session_results) = 1

Ids(s) == {s[i] : i \in 1..Len(s)}

\* C3: for every player of every cycle, a detail fetch is attempted only for
\* fetched ids that the store did not hold for that player at the existence
\* check (new_ids are the ids the loop fetches, got those it obtained).
C3_DedupBeforeFetch ==
    \A p \in Procs :
        st[p].pc = "insert" =>
            /\ Ids(st[p].new_ids) \subseteq Ids(st[p].mids) \ st[p].stored
            /\ st[p].got \subseteq Ids(st[p].new_ids)

\* a player's fetched list holds a recorded id and an unrecorded one
C3_Witness ==
    \E p \in Procs :
        /\ st[p].pc = "insert"
        /\ Ids(st[p].mids) \cap st[p].stored # {}
        /\ st[p].new_ids # <<>>

\* C4: every stored result of a session was played at or after the session's
\* started_at.
C4_PlayedSinceStart ==
    \A r \in BagToSet(session_results) :
        r.played_at >= sessions[r.session_id].started_at

\* C5: no stored result is of a match of another queue.
C5_QueueFilter ==
    \A r \in BagToSet(session_results) :
        MatchSource(r.match_id).queueId = SOLOQ_QUEUE_ID

\* the detail of m2 (another queue, played inside the window, with the
\* player in it) was obtained
C5_Witness ==
    \E p \in Procs :
        /\ st[p].pc = "insert"
        /\ "m2" \in st[p].got
        /\ st[p].start_dt * 1000 <= MatchSource("m2").gameEndTimestamp
        /\ MatchSource("m2").gameEndTimestamp <= st[p].now * 1000

\* C8: at most one session has ended_at = null.
C8_OneActiveSession ==
    Cardinality({i \in 1..Len(sessions) : sessions[i].ended_at = 0}) <= 1

\* C9: started_at, once set, is never written again, and it precedes
\* ended_at whenever both are set.
C9_StartedOnce ==
    /\ [][\A i \in 1..Len(sessions) :
              sessions[i].started_at # 0 =>
                  sessions'[i].started_at = sessions[i].started_at]_vars
    /\ [](\A i \in 1..Len(sessions) :
              (sessions[i].started_at # 0 /\ sessions[i].ended_at # 0) =>
                  sessions[i].started_at <= sessions[i].ended_at)

\* ---- C6
\* the played-at time of a detail (end time, else start time) (ms, 0 if none)
PlayedAtMs(d) ==
    IF d.gameEndTimestamp # 0 THEN d.gameEndTimestamp ELSE d.gameStartTimestamp

\* match m qualifies for the player with identifier u in a cycle that read
\* started_at = start and took now as the current time
QualifyingFor(m, u, start, now) ==
    /\ MatchSource(m).queueId = SOLOQ_QUEUE_ID
    /\ PlayedAtMs(MatchSource(m)) # 0
    /\ start * 1000 <= PlayedAtMs(MatchSource(m))
    /\ PlayedAtMs(MatchSource(m)) <= now * 1000
    /\ u \in DOMAIN MatchSource(m).participants

\* the alert text that describes the event <<name, "W"/"L">>
Describes(e) == <<e[1], IF e[2] = "W" THEN "victory" ELSE "defeat">>

\* the event of handle h's outcome in match m
EventOf(h, m) ==
    <<RealNameOf(h),
      IF MatchSource(m).participants[riotid_to_puuid(h)] THEN "W" ELSE "L">>

CountEvents(ev, e) == Cardinality({i \in 1..Len(ev) : ev[i] = e})

\* after the detail fetches of a player: each new id whose detail was
\* obtained and qualifies has exactly one row in the batch, with the player's
\* own win flag, and its event is among the cycle's events; an id whose detail
\* has no entry for the player has no row
C6_Batch(p) ==
    LET pl == st[p].players[st[p].k]
        ins == st[p].inserts
    IN  \A m \in st[p].got :
          /\ QualifyingFor(m, pl.puuid, st[p].start_dt, st[p].now) =>
                /\ Cardinality({i \in 1..Len(ins) : ins[i].match_id = m}) = 1
                /\ \A i \in 1..Len(ins) : ins[i].match_id = m =>
                      /\ ins[i].session_id = st[p].active.id
                      /\ ins[i].nickname = pl.nickname
                      /\ ins[i].win = MatchSource(m).participants[pl.puuid]
                /\ CountEvents(st[p].new_events, EventOf(pl.nickname, m)) >= 1
          /\ pl.puuid \notin DOMAIN MatchSource(m).participants =>
                \A i \in 1..Len(ins) : ins[i].match_id # m

\* the write of a batch leaves exactly one stored row per row of the batch,
\* with the batch's outcome
C6_Write(p) ==
    (st[p].pc = "insert" /\ st'[p].pc \in {"fetch", "render"}) =>
        \A i \in 1..Len(st[p].inserts) :
            /\ KeyCount(session_results', st[p].inserts[i]) = 1
            /\ \E q \in BagToSet(session_results') :
                  SameKey(q, st[p].inserts[i]) /\ q.win = st[p].inserts[i].win

\* at the end of a cycle that detected results: the displayed counts hold
\* them and the notification is active
C6_Shown(p) ==
    /\ session_state[p].alert_until > st[p].now
    /\ st[p].show_alert
    /\ \A h \in DOMAIN st[p].wl :
          /\ st[p].wl[h][1] >= CountEvents(st[p].new_events, <<RealNameOf(h), "W">>)
          /\ st[p].wl[h][2] >= CountEvents(st[p].new_events, <<RealNameOf(h), "L">>)

C7_PollOnlyRunning ==
    /\ [][\A p \in Procs :
              (st[p].pc = "idle" /\ st'[p].pc = "loaded") =>
                  sessions[st'[p].active.id].ended_at = 0]_vars
    /\ [](\A p \in Procs :
            st[p].pc \in {"fetch", "insert"} =>
                /\ st[p].active.ended_at = 0
                /\ st[p].active.started_at # 0
                /\ sessions[st[p].active.id].started_at # 0)
    /\ [][session_results' # session_results =>
              \E p \in Procs :
                  /\ st[p].pc = "insert"
                  /\ \A r \in BagToSet(session_results') \ BagToSet(session_results) :
                        r.session_id = st[p].active.id]_vars

\* the session is ended, the process polled it before and its poll interval
\* has elapsed again
C7_Witness ==
    /\ sessions[1].ended_at # 0
    /\ st["p1"].pc = "idle"
    /\ session_state["p1"].last_poll_ts # 0
    /\ clock - session_state["p1"].last_poll_ts >= POLL_SEC

\* ---- C10
\* C10: what a render shows agrees with the store it read: a player's wins
\* plus losses are the player's stored rows of the session, and a team's wins
\* are the sum of the wins of the handles on it (so equal sums show as equal).
C10_Aggregation ==
    [][\A p \in Procs :
          (st[p].pc = "render" /\ st'[p].pc = "done") =>
              LET d == st'[p]
                  mine(h) == {q \in BagToSet(session_results') :
                                 q.session_id = d.active.id /\ q.nickname = h}
                  stored(h) == SumOver([q \in mine(h) |-> session_results'[q]], mine(h))
                  wins == [h \in DOMAIN d.wl |-> d.wl[h][1]]
                  on(team) == {h \in DOMAIN d.wl :
                                 \E i \in 1..Len(d.players) :
                                     /\ d.players[i].nickname = h
                                     /\ d.players[i].team = team}
              IN  /\ \A h \in DOMAIN d.wl : d.wl[h][1] + d.wl[h][2] = stored(h)
                  /\ d.A_wins = SumOver(wins, on("A"))
                  /\ d.B_wins = SumOver(wins, on("B"))]_vars

\* a render shows a tie of one win each
C10_Witness ==
    \E p \in Procs :
        st[p].pc = "done" /\ st[p].A_wins = 1 /\ st[p].B_wins = 1

\* ---- C11
\* process p's render step, from the state before it to the state after it
RenderStep(p) == st[p].pc = "render" /\ st'[p].pc = "done"

\* the slot of p is active at the current time
Active(p) == clock < session_state[p].alert_until

\* C11: the render that records an event shows the notification and sets its
\* expiry ALERT_SHOW_SEC ahead; every render shows it exactly while the
\* expiry is ahead of the clock; and a slot that is inactive becomes active
\* only by a render that records a new event.
C11_NotificationExpiry ==
    /\ [][\A p \in Procs :
              (RenderStep(p) /\ st[p].new_events # <<>>) =>
                  /\ st'[p].show_alert
                  /\ session_state'[p].alert_until = clock + ALERT_SHOW_SEC]_vars
    /\ [][\A p \in Procs :
              RenderStep(p) =>
                  (st'[p].show_alert <=> clock' < session_state'[p].alert_until)]_vars
    /\ [][\A p \in Procs :
              (~Active(p) /\ Active(p)') =>
                  (RenderStep(p) /\ st[p].new_events # <<>>)]_vars

\* a render after the expiry of a notification that was set shows nothing
C11_Witness ==
    \E p \in Procs :
        /\ st[p].pc = "done"
        /\ session_state[p].alert_until # 0
        /\ clock >= session_state[p].alert_until
        /\ ~st[p].show_alert

\* ---- C12
\* process p's step from the fetches of a player to that player's write
FetchStep(p) == st[p].pc = "fetch" /\ st'[p].pc = "insert"

\* match m cannot qualify for the player with identifier u: wrong queue, no
\* entry of the player, or a time outside [start, now]
Disqualified(m, u, start, now) ==
    \/ MatchSource(m).queueId # SOLOQ_QUEUE_ID
    \/ u \notin DOMAIN MatchSource(m).participants
    \/ /\ PlayedAtMs(MatchSource(m)) # 0
       /\ \/ PlayedAtMs(MatchSource(m)) < start * 1000
          \/ PlayedAtMs(MatchSource(m)) > now * 1000

\* C12: a cycle starts with no events; a player whose fetched details are all
\* disqualified adds no row to the batch and no event; a step taken while no
\* process holds a non-empty batch leaves the result store as it is; and a
\* render of a cycle without events leaves the slot's text and expiry as
\* they are.
C12_NoQualifierNoChange ==
    /\ [](\A p \in Procs :
            (st[p].pc = "fetch" /\ st[p].k = 1) => st[p].new_events = <<>>)
    /\ [][\A p \in Procs :
              (/\ FetchStep(p)
               /\ \A m \in st'[p].got :
                     Disqualified(m, st[p].players[st[p].k].puuid,
                                  st[p].start_dt, st[p].now)) =>
                  /\ st'[p].inserts = <<>>
                  /\ st'[p].new_events = st[p].new_events]_vars
    /\ [][(\A p \in Procs : st[p].pc = "insert" => st[p].inserts = <<>>) =>
              session_results' = session_results]_vars
    /\ [][\A p \in Procs :
              (RenderStep(p) /\ st[p].new_events = <<>>) =>
                  /\ session_state'[p].alert_text = session_state[p].alert_text
                  /\ session_state'[p].alert_until = session_state[p].alert_until]_vars

\* the last player of a cycle: details were fetched, none qualified, the
\* cycle has no event, and the slot holds an older notification
C12_Witness ==
    \E p \in Procs :
        /\ st[p].pc = "insert"
        /\ st[p].k = Len(st[p].players)
        /\ st[p].got # {}
        /\ st[p].inserts = <<>>
        /\ st[p].new_events = <<>>
        /\ session_state[p].alert_until # 0

\* ---- C13
\* C13: a session moves only pending -> running -> ended: an end is applied
\* to a started session only, and an ended session's row never changes
\* again (no second end, no start after the end).
C13_Lifecycle ==
    [][\A i \in 1..Len(sessions) :
          /\ sessions[i].ended_at # 0 => sessions'[i] = sessions[i]
          /\ sessions'[i].ended_at # sessions[i].ended_at =>
                sessions[i].started_at # 0]_vars

\* ---- C14
\* the word of the alert text for a stored outcome
WordOf(win) == IF win THEN "victory" ELSE "defeat"

\* C14: the slot of a process changes only by its render step, which in a
\* polling run comes after the write of the last roster player; and whenever
\* a slot holds a notification, a stored row carries the result it describes.
C14_PersistBeforeNotify ==
    /\ [][\A p \in Procs :
              (\/ session_state'[p].alert_text # session_state[p].alert_text
               \/ session_state'[p].alert_until # session_state[p].alert_until) =>
                  (RenderStep(p) /\ (st[p].polled => st[p].k > Len(st[p].players)))]_vars
    /\ [](\A p \in Procs :
            session_state[p].alert_until # 0 =>
                \E r \in BagToSet(session_results) :
                    session_state[p].alert_text = <<RealNameOf(r.nickname), WordOf(r.win)>>)

\* a result was detected and waits for its write; the slot is still empty
C14_Witness ==
    \E p \in Procs :
        /\ st[p].pc = "insert"
        /\ st[p].inserts # <<>>
        /\ session_state[p].alert_until = 0
        /\ \A i \in 1..Len(st[p].inserts) :
              KeyCount(session_results, st[p].inserts[i]) = 0

\* ---- C15
\* process p's step into a poll cycle
CycleStart(p) == st[p].pc = "loaded" /\ st'[p].pc = "fetch"

\* C15: a process starts a cycle only when at least POLL_SEC has passed since
\* its last-poll marker, and the start sets the marker to the current time;
\* the marker changes in no other step; a process is in its fetch or write
\* steps only within the cycle that set the marker; and the result store
\* changes only by the write step of a process in a cycle.
C15_Cadence ==
    /\ [][\A p \in Procs :
              CycleStart(p) =>
                  /\ clock - session_state[p].last_poll_ts >= POLL_SEC
                  /\ session_state'[p].last_poll_ts = clock]_vars
    /\ [][\A p \in Procs :
              session_state'[p].last_poll_ts # session_state[p].last_poll_ts =>
                  CycleStart(p)]_vars
    /\ [](\A p \in Procs :
            st[p].pc \in {"fetch", "insert"} =>
                /\ st[p].polled
                /\ session_state[p].last_poll_ts = st[p].now)
    /\ [][session_results' # session_results =>
              \E p \in Procs : st[p].pc = "insert" /\ st[p].polled]_vars
    /\ [][clock' >= clock]_vars

\* a run on the running session, after the process's last poll and before
\* its interval has passed, goes to the render without polling
C15_Witness ==
    \E p \in Procs :
        /\ st[p].pc = "render"
        /\ ~st[p].polled
        /\ st[p].players # <<>>
        /\ st[p].active.started_at # 0
        /\ st[p].active.ended_at = 0
        /\ session_state[p].last_poll_ts # 0
        /\ clock > session_state[p].last_poll_ts
        /\ clock - session_state[p].last_poll_ts < POLL_SEC

\* ---- C16
\* process p's cycle ends in an uncaught exception
AbortedCycle(p) == st[p].pc \in {"fetch", "insert"} /\ st'[p].pc = "idle"

\* C16: a cycle that is aborted by a failure has not advanced the last-poll
\* marker: after the abort the marker is not the start time of that cycle.
C16_MarkerOnSuccess ==
    [][\A p \in Procs :
          AbortedCycle(p) => session_state'[p].last_poll_ts # st[p].now]_vars

\* ---- C17
\* C17: a cycle that has started goes on to the next match or player
\* whatever an external call does: from its fetch and write steps a process
\* moves only to further fetch and write steps or to the render that follows
\* the last player.
C17_FailureSkipsUnit ==
    [][\A p \in Procs :
          st[p].pc \in {"fetch", "insert"} =>
              st'[p].pc \in {"fetch", "insert", "render"}]_vars

\* ---- C18
\* C18: session 1 stays running, h1's match m1 qualifies from the first cycle
\* on and nothing is recorded for it while it is skipped; the runs, the clock
\* and the successes of the calls for m1 keep coming, so m1 is eventually
\* recorded for h1 in session 1.
C18_EventuallyRecorded ==
    <>(\E r \in BagToSet(session_results) :
          r.session_id = 1 /\ r.nickname = "h1" /\ r.match_id = "m1")

\* ---- C19
\* C19: the render of a cycle that detected at least one result replaces the
\* slot, whatever it held, by the text of the last result detected in the
\* cycle and the expiry current time + ALERT_SHOW_SEC.
C19_SlotKeepsLatest ==
    [][\A p \in Procs :
          (RenderStep(p) /\ st[p].new_events # <<>>) =>
              LET last == st[p].new_events[Len(st[p].new_events)]
              IN  session_state'[p] =
                    [alert_text |-> <<last[1], IF last[2] = "W" THEN "victory" ELSE "defeat">>,
                     alert_until |-> clock + ALERT_SHOW_SEC,
                     last_poll_ts |-> session_state[p].last_poll_ts]]_vars

\* a cycle that began after a whole interval had passed detected two
\* different results, and the slot holds the last one
C19_Witness ==
    \E p \in Procs :
        /\ st[p].pc = "done"
        /\ Len(st[p].new_events) >= 2
        /\ session_state[p].alert_text # Describes(st[p].new_events[1])
        /\ session_state[p].alert_until > POLL_SEC + StartClock

\* ---- C20
\* what the aggregator computes from the store for session 1, whose roster
\* does not change: each handle's wins and losses and each team's wins
Shown ==
    LET df == load_results(1)
        roster == {r.nickname : r \in load_players(1)}
        team(t) == {r.nickname : r \in {q \in load_players(1) : q.team = t}}
    IN  [wl |-> [h \in roster |-> wl(df, h)],
         A |-> team_wins(df, team("A")),
         B |-> team_wins(df, team("B"))]

\* C20: no step, of any process, lowers a handle's win count or loss count
\* or a team's win total as computed from the store.
C20_CountsMonotone ==
    [][/\ \A h \in DOMAIN Shown.wl :
              /\ Shown'.wl[h][1] >= Shown.wl[h][1]
              /\ Shown'.wl[h][2] >= Shown.wl[h][2]
       /\ Shown'.A >= Shown.A
       /\ Shown'.B >= Shown.B]_vars

\* a process has shown a count of one while the other process holds a batch
\* with a row that is already stored, which its write is about to replace
C20_Witness ==
    \E p \in Procs, q \in Procs :
        /\ p # q
        /\ st[p].pc = "done"
        /\ \E h \in DOMAIN st[p].wl : st[p].wl[h][1] + st[p].wl[h][2] >= 1
        /\ st[q].pc = "insert"
        /\ \E i \in 1..Len(st[q].inserts) :
              KeyCount(session_results, st[q].inserts[i]) = 1

====
